---- MODULE Spec2Model ----
(***************************************************************************)
(* Rate limiting middleware of glance (glance/api/middleware/ratelimit.py) *)
(* over the counter store of its tests (FakeMemcache).                     *)
(*                                                                         *)
(* Time is held in clock units (1 second = conf.clock_accuracy units), as  *)
(* the integer now_m that _get_sleep_time computes from time.time().       *)
(* Durations given in seconds as floats (max_sleep_time_seconds,           *)
(* log_sleep_time_seconds) are held in hundredths of a second, so that the *)
(* comparison against clock_accuracy * 0.01 stays in the integers.         *)
(* Rates are whole requests per second.                                    *)
(*                                                                         *)
(* A request is handled by a worker (an eventlet thread or a process).     *)
(* Every call to the store and every sleep is one step of the worker, so   *)
(* that the steps of concurrent requests interleave as they do on the      *)
(* shared store.                                                           *)
(***************************************************************************)
EXTENDS Integers, Sequences, FiniteSets, TLC

VARIABLES
    conf,             \* the options read by RateLimitMiddleware.__init__
    memcache_client,  \* RateLimitMiddleware.memcache_client
    store,            \* FakeMemcache.store, a missing key reading 0
    time_ticker,      \* the clock, time.time() * clock_accuracy
    begin,            \* the clock when the run began
    wk,               \* per worker: the request it handles and its position
    nreq              \* number of requests received so far

vars == <<conf, memcache_client, store, time_ticker, begin, wk, nreq>>

----------------------------------------------------------------------------
(* Bounds of the model *)

MaxReq == 2
MaxTime == 700
NumCalls == 50

Workers == {1, 2}
Tokens == {"a", "b"}
TickSteps == {600}
StartTimes == {0, 1000}

----------------------------------------------------------------------------
(* Values *)

\* Python's None; "%s" % None is "None".
None == "None"

Max(a, b) == IF a >= b THEN a ELSE b

\* Python 2 round() of the quotient n / d, as an int: halves go away from zero.
RoundDiv(n, d) ==
    LET an == IF n < 0 THEN -n ELSE n
        ad == IF d < 0 THEN -d ELSE d
        q  == (2 * an + ad) \div (2 * ad)
    IN IF (n < 0) = (d < 0) THEN q ELSE -q

\* str() of an int: its decimal digits, "-" first when negative.
RECURSIVE Digits(_)
Digits(n) == IF n < 10 THEN <<n>> ELSE Digits(n \div 10) \o <<n % 10>>

Str(n) == IF n < 0 THEN [neg |-> TRUE, digits |-> Digits(-n)]
          ELSE [neg |-> FALSE, digits |-> Digits(n)]

\* int() of such a string.
RECURSIVE DigitsValue(_)
DigitsValue(ds) ==
    IF ds = <<>> THEN 0
    ELSE 10 * DigitsValue(SubSeq(ds, 1, Len(ds) - 1)) + ds[Len(ds)]

ParseInt(s) == IF s.neg THEN -DigitsValue(s.digits) ELSE DigitsValue(s.digits)

----------------------------------------------------------------------------
(* The store: FakeMemcache *)

AggregateKey(auth_tok) == "ratelimit/" \o auth_tok
ActionKey(auth_tok, action) == "ratelimit/" \o auth_tok \o "/" \o action

Actions == {"image_list", "image_download", "image_register",
            "image_upload", "image_update"}

\* What is not the name of an action: no action, and the names that the
\* tests pass.
UnknownActions == {None, "c", "foobar", "_list", "image_"}

\* A token that holds the separator of the keys.
SlashTokens == {"a/image_list"}

\* The keys a request can name, the ones made from no token among them.
Keys ==
    LET toks == Tokens \cup {None} \cup SlashTokens
    IN {AggregateKey(t) : t \in toks}
       \cup {ActionKey(t, a) : t \in toks, a \in Actions \cup UnknownActions}

\* An incr that writes delta over the value it read as 0, whatever the
\* other callers have stored since: a read and a write that are not atomic.
MemIncrOverwrites(s, key, delta) == [s EXCEPT ![key] = delta]

\* FakeMemcache.incr: the new value, never below 0.
MemIncr(s, key, delta) ==
    LET v == s[key] + delta
    IN [s EXCEPT ![key] = IF v < 0 THEN 0 ELSE v]

\* FakeMemcache.decr
MemDecr(s, key, delta) == MemIncr(s, key, -delta)

\* FakeMemcache.set keeps the string it is given; incr reads it back with
\* int(). The value is held as that int.
MemSet(s, key, value) == [s EXCEPT ![key] = ParseInt(value)]

----------------------------------------------------------------------------
(* Policy *)

limitable_methods == {"GET", "PUT", "POST", "DELETE", "HEAD"}

\* A resolver that gives every unknown name the limit of image_list.
get_limit_for_action_lenient(action) ==
    IF action = "image_download"
        THEN [raised |-> FALSE, limit |-> conf.image_download]
    ELSE IF action = "image_register"
        THEN [raised |-> FALSE, limit |-> conf.image_register]
    ELSE IF action = "image_upload"
        THEN [raised |-> FALSE, limit |-> conf.image_upload]
    ELSE IF action = "image_update"
        THEN [raised |-> FALSE, limit |-> conf.image_update]
    ELSE [raised |-> FALSE, limit |-> conf.image_list]

\* A resolver that takes image_upload and image_update for each other.
get_limit_for_action_swapped(action) ==
    IF action = "image_list" THEN [raised |-> FALSE, limit |-> conf.image_list]
    ELSE IF action = "image_download"
        THEN [raised |-> FALSE, limit |-> conf.image_download]
    ELSE IF action = "image_register"
        THEN [raised |-> FALSE, limit |-> conf.image_register]
    ELSE IF action = "image_upload"
        THEN [raised |-> FALSE, limit |-> conf.image_update]
    ELSE IF action = "image_update"
        THEN [raised |-> FALSE, limit |-> conf.image_upload]
    ELSE [raised |-> TRUE, limit |-> 0]

\* _get_limit_for_action: the limit, or the ValueError of an unknown action.
get_limit_for_action(action) ==
    IF action = "image_list" THEN [raised |-> FALSE, limit |-> conf.image_list]
    ELSE IF action = "image_download"
        THEN [raised |-> FALSE, limit |-> conf.image_download]
    ELSE IF action = "image_register"
        THEN [raised |-> FALSE, limit |-> conf.image_register]
    ELSE IF action = "image_upload"
        THEN [raised |-> FALSE, limit |-> conf.image_upload]
    ELSE IF action = "image_update"
        THEN [raised |-> FALSE, limit |-> conf.image_update]
    ELSE [raised |-> TRUE, limit |-> 0]

\* The aggregate entry whatever the method.
AggregateTuplesAnyMethod(method, auth_tok) ==
    IF conf.account_ratelimit # 0
    THEN <<[key |-> AggregateKey(auth_tok), max_rate |-> conf.account_ratelimit]>>
    ELSE <<>>

\* The aggregate entry of get_ratelimitable_key_tuples.
AggregateTuples(method, auth_tok) ==
    IF method \in limitable_methods /\ conf.account_ratelimit # 0
    THEN <<[key |-> AggregateKey(auth_tok), max_rate |-> conf.account_ratelimit]>>
    ELSE <<>>

\* The entry of the action of get_ratelimitable_key_tuples.
ActionTuples(auth_tok, action) ==
    LET r == get_limit_for_action(action)
        limit == IF r.raised THEN 0 ELSE r.limit
    IN IF limit > 0
       THEN <<[key |-> ActionKey(auth_tok, action), max_rate |-> limit]>>
       ELSE <<>>

\* The entry of the action put first.
KeyTuplesActionFirst(method, auth_tok, action) ==
    ActionTuples(auth_tok, action) \o AggregateTuples(method, auth_tok)

get_ratelimitable_key_tuples(method, auth_tok, action) ==
    AggregateTuples(method, auth_tok) \o ActionTuples(auth_tok, action)

----------------------------------------------------------------------------
(* The routes of RateLimitMiddleware.mapper, in the order they are connected. *)
(* A path is one of the shapes /v/images, /v/images/detail, /v/images/{id}    *)
(* and anything else; body tells whether the request has a body or a          *)
(* location header.                                                           *)

PathShapes == {"images", "detail", "id", "other"}

Routes == <<
    [paths |-> {"images"}, method |-> "GET", body |-> {TRUE, FALSE},
     action |-> "image_list"],
    [paths |-> {"detail"}, method |-> "GET", body |-> {TRUE, FALSE},
     action |-> "image_list"],
    [paths |-> {"id", "detail"}, method |-> "HEAD", body |-> {TRUE, FALSE},
     action |-> "image_list"],
    [paths |-> {"id", "detail"}, method |-> "GET", body |-> {TRUE, FALSE},
     action |-> "image_download"],
    [paths |-> {"images"}, method |-> "POST", body |-> {FALSE},
     action |-> "image_register"],
    [paths |-> {"images"}, method |-> "POST", body |-> {TRUE},
     action |-> "image_upload"],
    [paths |-> {"id", "detail"}, method |-> "PUT", body |-> {TRUE},
     action |-> "image_upload"],
    [paths |-> {"id", "detail"}, method |-> "PUT", body |-> {TRUE, FALSE},
     action |-> "image_update"] >>

RouteMatches(r, method, path, body) ==
    path \in r.paths /\ method = r.method /\ body \in r.body

\* mapper.match: the action of the first route that matches, or None.
\* A match that takes the last route that matches instead of the first.
MapperMatchLast(method, path, body) ==
    LET hits == {i \in 1..Len(Routes) : RouteMatches(Routes[i], method, path, body)}
    IN IF hits = {} THEN None
       ELSE Routes[CHOOSE i \in hits : \A j \in hits : i >= j].action

MapperMatch(method, path, body) ==
    LET hits == {i \in 1..Len(Routes) : RouteMatches(Routes[i], method, path, body)}
    IN IF hits = {} THEN None
       ELSE Routes[CHOOSE i \in hits : \A j \in hits : i <= j].action

----------------------------------------------------------------------------
(* A worker and the request it handles *)

Hundredths == 100

IdleWorker ==
    [pc |-> "idle", seq |-> 0, token |-> None, method |-> None,
     path |-> None, body |-> FALSE, forwards |-> 0, released |-> <<>>,
     action |-> None, client |-> None, limits |-> <<>>, start |-> <<>>,
     i |-> 0,
     now_m |-> 0, time_per_request_m |-> 0, running_time_m |-> 0,
     need_to_sleep_m |-> 0, before |-> 0, reset |-> FALSE,
     wake |-> 0, slept |-> 0, resp |-> None,
     ops |-> <<>>, logs |-> {}, checks |-> <<>>]

Log(level, what) == [level |-> level, what |-> what]

Bucket(r) == r.limits[r.i]

\* The quotient truncated, as the division of two ints would give.
TimePerRequestTruncated(max_rate) == conf.clock_accuracy \div max_rate

\* int(round(self.clock_accuracy / max_rate))
TimePerRequest(max_rate) == RoundDiv(conf.clock_accuracy, max_rate)

\* No bucket is ever found idle.
IdleNeverTooLong(now_m, running_time_m) == FALSE

\* now_m - running_time_m > self.rate_buffer_seconds * self.clock_accuracy
IdleTooLong(now_m, running_time_m) ==
    now_m - running_time_m > conf.rate_buffer_seconds * conf.clock_accuracy

\* The slot of the request itself is counted as a wait.
NeedToSleepWholeSlot(now_m, running_time_m, time_per_request_m) ==
    Max(running_time_m - now_m, 0)

\* max(running_time_m - now_m - time_per_request_m, 0)
NeedToSleep(now_m, running_time_m, time_per_request_m) ==
    Max(running_time_m - now_m - time_per_request_m, 0)

\* Only a sleep longer than max_sleep_time_seconds is refused.
MaxSleepTimeHitBeyond(need_to_sleep_m) ==
    conf.max_sleep_time_seconds * conf.clock_accuracy
        - Hundredths * need_to_sleep_m < 0

\* max_sleep_m - need_to_sleep_m <= self.clock_accuracy * 0.01
MaxSleepTimeHit(need_to_sleep_m) ==
    conf.max_sleep_time_seconds * conf.clock_accuracy
        - Hundredths * need_to_sleep_m <= conf.clock_accuracy

\* Every sleep time is logged, whatever log_sleep_time_seconds is.
SleepIsAlwaysLogged(need_to_sleep_m) == TRUE

\* self.log_sleep_time_seconds and need_to_sleep > self.log_sleep_time_seconds
SleepIsLogged(need_to_sleep_m) ==
    /\ conf.log_sleep_time_seconds # 0
    /\ Hundredths * need_to_sleep_m
           > conf.log_sleep_time_seconds * conf.clock_accuracy

\* The request is passed to the wrapped application.
Forwarded(r) == [r EXCEPT !.pc = "done", !.resp = "app", !.forwards = @ + 1]

\* handle_ratelimit goes on to its next bucket, or returns None.
NextBucket(r) ==
    IF r.i < Len(r.limits) THEN [r EXCEPT !.pc = "time", !.i = @ + 1]
    ELSE Forwarded(r)

\* What the check of one bucket did, kept for the properties.
Check(r, kind, need, after) ==
    [key |-> Bucket(r).key, max_rate |-> Bucket(r).max_rate,
     now_m |-> r.now_m, before |-> r.before, running |-> r.running_time_m,
     reset |-> r.reset, kind |-> kind, need |-> need, after |-> after,
     raised |-> IF kind = "error" THEN r.ops[Len(r.ops)].op ELSE None]

\* The sleep that _get_sleep_time asks for is never taken.
ReturnedWithoutSleep(r, kind, need, after, now) ==
    NextBucket([r EXCEPT !.checks = Append(@, Check(r, kind, need, after)),
                         !.need_to_sleep_m = need])

\* _get_sleep_time returned need_to_sleep_m to handle_ratelimit, which logs
\* a long sleep and sleeps.
Returned(r, kind, need, after, now) ==
    LET r1 == [r EXCEPT !.checks = Append(@, Check(r, kind, need, after)),
                        !.need_to_sleep_m = need,
                        !.logs = IF SleepIsLogged(need)
                                 THEN @ \cup {Log("warning", "sleep")}
                                 ELSE @]
    IN IF need > 0
       THEN [r1 EXCEPT !.pc = "sleep", !.wake = now + need, !.slept = @ + need]
       ELSE NextBucket(r1)

\* The error is answered like MaxSleepTimeHitError, with the 429 response.
ConnectionErrorRejects(r, after, now) ==
    [r EXCEPT !.pc = "done", !.resp = "429",
              !.checks = Append(@, Check(r, "error", 0, after)),
              !.logs = @ \cup {Log("error", "memcache")}]

\* The error is not caught and leaves the middleware.
ConnectionErrorPropagates(r, after, now) ==
    [r EXCEPT !.pc = "done", !.resp = "500",
              !.checks = Append(@, Check(r, "error", 0, after))]

\* except MemcacheConnectionError: the error is logged and 0 returned.
ConnectionError(r, after, now) ==
    Returned([r EXCEPT !.logs = @ \cup {Log("error", "memcache")}],
             "error", 0, after, now)

\* The test of max_sleep_time_seconds once need_to_sleep_m is known.
Decided(r, need, after, now) ==
    IF MaxSleepTimeHit(need)
    THEN [r EXCEPT !.pc = "decr", !.need_to_sleep_m = need]
    ELSE Returned(r, "admit", need, after, now)

\* The rejection of a bucket is noted and the loop goes on to the next bucket.
RateLimitedGoesOn(r, after) ==
    NextBucket([r EXCEPT
        !.checks = Append(@, Check(r, "reject", r.need_to_sleep_m, after)),
        !.logs = @ \cup {Log("warning", "returning 429")}])

\* except MaxSleepTimeHitError in handle_ratelimit: the 429 response.
RateLimited(r, after) ==
    [r EXCEPT !.pc = "done", !.resp = "429",
              !.checks = Append(@, Check(r, "reject", r.need_to_sleep_m, after)),
              !.logs = @ \cup {Log("warning", "returning 429")}]

----------------------------------------------------------------------------
(* The steps of a request *)

\* The test of the client is missing.
NoClientUnchecked(client) == FALSE

\* if not self.memcache_client
NoClient(client) == client = None

\* The test of the token is missing.
NoTokenUnchecked(account) == FALSE

\* account = req.headers.get('x-auth-token'); if account is None
NoToken(account) == account = None

\* The workers that handle no request.
Free == {w \in Workers : wk[w].pc \in {"idle", "done"}}

\* RateLimitMiddleware.__call__ up to the first bucket of handle_ratelimit.
\* req.cache is env['glance.cache'].
\* The client of the request is taken whatever client is held.
AcquireAlways(held, cache) == cache

\* if self.memcache_client is None:
\*     self.memcache_client = cache_from_env(env)
Acquire(held, cache) == IF held = None THEN cache ELSE held

\* released is the record of the requests let through before this one, which
\* the properties of a sequence of requests read.
CallAfter(w, req, released) ==
    LET client == Acquire(memcache_client, req.cache)
        r0 == [IdleWorker EXCEPT
                  !.released = released,
                  !.seq = nreq + 1, !.token = req.token, !.method = req.method,
                  !.path = req.path, !.body = req.body, !.client = client,
                  !.logs = IF memcache_client = None /\ req.cache = None
                           THEN {Log("error", "glance.cache")} ELSE {}]
        action == MapperMatch(req.method, req.path, req.body)
        limits == get_ratelimitable_key_tuples(req.method, req.token, action)
        r1 == [r0 EXCEPT
                  !.action = action,
                  !.limits = limits,
                  !.start = [j \in 1..Len(limits) |-> store[limits[j].key]],
                  !.logs = @ \cup (IF action # None THEN {Log("debug", "action")} ELSE {})
                           \cup (IF get_limit_for_action(action).raised
                                 THEN {Log("error", "unknown action")} ELSE {})]
    IN /\ w \in Free
       /\ \A v \in Free : w <= v
       /\ memcache_client' = client
       /\ wk' = [wk EXCEPT ![w] =
              IF NoClient(client)
              THEN Forwarded([r0 EXCEPT !.logs = @ \cup {Log("warning", "no memcached")}])
              ELSE IF NoToken(req.token)
              THEN Forwarded([r0 EXCEPT !.logs = @ \cup {Log("info", "no token")}])
              ELSE NextBucket(r1)]
       /\ nreq' = nreq + 1
       /\ UNCHANGED <<conf, store, time_ticker, begin>>

Call(w, req) == CallAfter(w, req, <<>>)

\* _get_sleep_time reads the clock and computes time_per_request_m.
ReadClock(w) ==
    LET r == wk[w]
    IN /\ r.pc = "time"
       /\ wk' = [wk EXCEPT ![w] =
              [r EXCEPT !.pc = "incr", !.now_m = time_ticker,
                        !.time_per_request_m = TimePerRequest(Bucket(r).max_rate),
                        !.reset = FALSE]]
       /\ UNCHANGED <<conf, memcache_client, store, time_ticker, begin, nreq>>

Called(r, op) == [r EXCEPT !.ops = Append(@, [op |-> op, key |-> Bucket(r).key])]

\* memcache_client.incr(key, delta=time_per_request_m), then the test of the
\* idle bucket and, for a busy one, need_to_sleep_m.
DoIncr(w) ==
    LET r == wk[w]
        key == Bucket(r).key
        s1 == MemIncr(store, key, r.time_per_request_m)
        r1 == [Called(r, "incr") EXCEPT !.before = store[key],
                                        !.running_time_m = s1[key]]
    IN /\ r.pc = "incr"
       /\ store' = s1
       /\ wk' = [wk EXCEPT ![w] =
              IF IdleTooLong(r.now_m, s1[key])
              THEN [r1 EXCEPT !.pc = "set", !.reset = TRUE]
              ELSE Decided(r1, NeedToSleep(r.now_m, s1[key], r.time_per_request_m),
                           s1[key], time_ticker)]
       /\ UNCHANGED <<conf, memcache_client, time_ticker, begin, nreq>>

\* FakeMemcache.incr raises MemcacheConnectionError (error_on_incr).
IncrRaises(w) ==
    LET r == wk[w]
        key == Bucket(r).key
    IN /\ r.pc = "incr"
       /\ wk' = [wk EXCEPT ![w] =
              ConnectionError([Called(r, "incr") EXCEPT !.before = store[key]],
                              store[key], time_ticker)]
       /\ UNCHANGED <<conf, memcache_client, store, time_ticker, begin, nreq>>

\* FakeMemcache.init_incr_return_neg: the first incr of the store returns
\* -10000000 and stores nothing.
InitIncrReturn == -10000000

IncrReturnsNeg(w) ==
    LET r == wk[w]
        key == Bucket(r).key
        r1 == [Called(r, "incr") EXCEPT !.before = store[key],
                                        !.running_time_m = InitIncrReturn]
    IN /\ r.pc = "incr"
       /\ r.seq = 1
       /\ wk' = [wk EXCEPT ![w] =
              IF IdleTooLong(r.now_m, InitIncrReturn)
              THEN [r1 EXCEPT !.pc = "set", !.reset = TRUE]
              ELSE Decided(r1, NeedToSleep(r.now_m, InitIncrReturn,
                                           r.time_per_request_m),
                           store[key], time_ticker)]
       /\ UNCHANGED <<conf, memcache_client, store, time_ticker, begin, nreq>>

\* memcache_client.set(key, str(next_avail_time)) of an idle bucket.
DoSet(w) ==
    LET r == wk[w]
        key == Bucket(r).key
        next_avail_time == r.now_m + r.time_per_request_m
        s1 == MemSet(store, key, Str(next_avail_time))
    IN /\ r.pc = "set"
       /\ store' = s1
       /\ wk' = [wk EXCEPT ![w] = Decided(Called(r, "set"), 0, s1[key], time_ticker)]
       /\ UNCHANGED <<conf, memcache_client, time_ticker, begin, nreq>>

\* The set raises MemcacheConnectionError.
SetRaises(w) ==
    LET r == wk[w]
    IN /\ r.pc = "set"
       /\ wk' = [wk EXCEPT ![w] =
              ConnectionError(Called(r, "set"), store[Bucket(r).key], time_ticker)]
       /\ UNCHANGED <<conf, memcache_client, store, time_ticker, begin, nreq>>

\* memcache_client.decr(key, delta=time_per_request_m) and MaxSleepTimeHitError.
DoDecr(w) ==
    LET r == wk[w]
        key == Bucket(r).key
        s1 == MemDecr(store, key, r.time_per_request_m)
    IN /\ r.pc = "decr"
       /\ store' = s1
       /\ wk' = [wk EXCEPT ![w] = RateLimited(Called(r, "decr"), s1[key])]
       /\ UNCHANGED <<conf, memcache_client, time_ticker, begin, nreq>>

\* The decr raises MemcacheConnectionError (FakeMemcache.decr calls incr).
DecrRaises(w) ==
    LET r == wk[w]
    IN /\ r.pc = "decr"
       /\ wk' = [wk EXCEPT ![w] =
              ConnectionError(Called(r, "decr"), store[Bucket(r).key], time_ticker)]
       /\ UNCHANGED <<conf, memcache_client, store, time_ticker, begin, nreq>>

\* eventlet.sleep(need_to_sleep) is over: the clock is at the time the sleep
\* ends, or later (mock_sleep adds the sleep to the clock).
\* A sleep that does not end.
SleepNeverEnds(w) ==
    /\ wk[w].pc = "sleep"
    /\ UNCHANGED vars

Sleep(w) ==
    LET r == wk[w]
    IN /\ r.pc = "sleep"
       /\ time_ticker' = Max(time_ticker, r.wake)
       /\ wk' = [wk EXCEPT ![w] = NextBucket(r)]
       /\ UNCHANGED <<conf, memcache_client, store, begin, nreq>>

\* The cancelled request gives its reservation back.
CancelRollsBack(w) ==
    LET r == wk[w]
    IN /\ r.pc = "sleep"
       /\ store' = MemDecr(store, Bucket(r).key, r.time_per_request_m)
       /\ wk' = [wk EXCEPT ![w] =
              [Called(r, "decr") EXCEPT !.pc = "done", !.resp = "cancelled"]]
       /\ UNCHANGED <<conf, memcache_client, time_ticker, begin, nreq>>

\* The green thread of the request is killed or times out while it is in
\* eventlet.sleep: the exception is not MaxSleepTimeHitError, nothing in
\* handle_ratelimit or __call__ catches it, and the request ends there.
Cancel(w) ==
    LET r == wk[w]
    IN /\ r.pc = "sleep"
       /\ wk' = [wk EXCEPT ![w] = [r EXCEPT !.pc = "done", !.resp = "cancelled"]]
       /\ UNCHANGED <<conf, memcache_client, store, time_ticker, begin, nreq>>

\* Time passes.
Tick(d) ==
    /\ time_ticker + d <= MaxTime
    /\ time_ticker' = time_ticker + d
    /\ UNCHANGED <<conf, memcache_client, store, begin, wk, nreq>>

----------------------------------------------------------------------------
(* Configurations *)

\* The defaults of RateLimitMiddleware.__init__.
DefaultConf ==
    [clock_accuracy |-> 1000, rate_buffer_seconds |-> 5,
     max_sleep_time_seconds |-> 60 * Hundredths, log_sleep_time_seconds |-> 0,
     account_ratelimit |-> 0, image_list |-> 0, image_download |-> 0,
     image_register |-> 0, image_upload |-> 0, image_update |-> 0]

\* clock_accuracy 100; max_sleep_time_seconds in hundredths of a second.
SmallConf(max_sleep, account, list) ==
    [DefaultConf EXCEPT !.clock_accuracy = 100,
                        !.max_sleep_time_seconds = max_sleep,
                        !.log_sleep_time_seconds = 1,
                        !.account_ratelimit = account, !.image_list = list]

Confs == {SmallConf(50, 100, 1), SmallConf(100, 2, 0),
          SmallConf(0, 2, 0), SmallConf(100, 0, 5)}

Shapes == {[method |-> "GET", path |-> "images", body |-> FALSE],
           [method |-> "GET", path |-> "id", body |-> FALSE],
           [method |-> "OPTIONS", path |-> "other", body |-> FALSE]}

EnvCaches == {None, "cache"}

Requests ==
    {[token |-> t, method |-> s.method, path |-> s.path, body |-> s.body,
      cache |-> c] : t \in Tokens \cup {None}, s \in Shapes, c \in EnvCaches}

----------------------------------------------------------------------------
(* The middleware under concurrent requests *)

Init ==
    /\ conf \in Confs
    /\ memcache_client = None
    /\ store = [k \in Keys |-> 0]
    /\ time_ticker \in StartTimes
    /\ begin = time_ticker
    /\ wk = [w \in Workers |-> IdleWorker]
    /\ nreq = 0

\* A request arrives and the first free worker takes it.
Receive(w, req) == nreq < MaxReq /\ Call(w, req)

Next ==
    \/ \E w \in Workers, req \in Requests : Receive(w, req)
    \/ \E w \in Workers : ReadClock(w)
    \/ \E w \in Workers : DoIncr(w)
    \/ \E w \in Workers : IncrRaises(w)
    \/ \E w \in Workers : DoSet(w)
    \/ \E w \in Workers : SetRaises(w)
    \/ \E w \in Workers : DoDecr(w)
    \/ \E w \in Workers : DecrRaises(w)
    \/ \E w \in Workers : Sleep(w)
    \/ \E d \in TickSteps : Tick(d)

Spec == Init /\ [][Next]_vars

----------------------------------------------------------------------------
(* One request at a time: a single worker *)

NextSeq ==
    \/ \E req \in Requests : Receive(1, req)
    \/ ReadClock(1)
    \/ DoIncr(1)
    \/ IncrRaises(1)
    \/ DoSet(1)
    \/ SetRaises(1)
    \/ DoDecr(1)
    \/ DecrRaises(1)
    \/ Sleep(1)
    \/ \E d \in TickSteps : Tick(d)

SpecSeq == Init /\ [][NextSeq]_vars

----------------------------------------------------------------------------
(* test_account_ratelimit: one caller, NumCalls calls one after the other, *)
(* the clock moved by the sleeps alone                                     *)

PaceRates == {2, 5, 10, 13}
PaceStartTimes == {0, 10000}

PaceCall(m) ==
    /\ nreq < NumCalls
    /\ Call(1, [token |-> "a", method |-> m, path |-> "other", body |-> FALSE,
                cache |-> "cache"])

InitPace ==
    /\ conf \in {[DefaultConf EXCEPT !.account_ratelimit = R] : R \in PaceRates}
    /\ memcache_client = None
    /\ store = [k \in Keys |-> 0]
    /\ time_ticker \in PaceStartTimes
    /\ begin = time_ticker
    /\ wk = [w \in Workers |-> IdleWorker]
    /\ nreq = 0

NextPace ==
    \/ \E m \in {"DELETE", "GET", "POST", "PUT"} : PaceCall(m)
    \/ ReadClock(1)
    \/ DoIncr(1)
    \/ DoSet(1)
    \/ Sleep(1)

SpecPace == InitPace /\ [][NextPace]_vars

----------------------------------------------------------------------------
(* test_ratelimit_max_rate_double: calls of one caller that read the same  *)
(* time, each call made once the calls before it have been decided, then   *)
(* calls at later times                                                    *)

BurstCalls == 5
BurstSame == 4
BurstTicks == {50, 600}

BurstCall ==
    /\ nreq < BurstCalls
    /\ \A w \in Workers : wk[w].pc \in {"idle", "sleep", "done"}
    /\ \E w \in Workers :
          Call(w, [token |-> "a", method |-> "PUT", path |-> "other",
                   body |-> FALSE, cache |-> "cache"])

\* The clock stands still until the calls of the burst have read it.
Frozen ==
    \/ nreq < BurstSame
    \/ \E w \in Workers : wk[w].seq <= BurstSame /\ wk[w].pc = "time"

BurstSleep(w) == ~Frozen /\ Sleep(w)

BurstTick(d) == ~Frozen /\ Tick(d)

InitBurst ==
    /\ conf = SmallConf(100, 2, 0)
    /\ memcache_client = None
    /\ store = [k \in Keys |-> 0]
    /\ time_ticker \in StartTimes
    /\ begin = time_ticker
    /\ wk = [w \in Workers |-> IdleWorker]
    /\ nreq = 0

NextBurst ==
    \/ BurstCall
    \/ \E w \in Workers : ReadClock(w)
    \/ \E w \in Workers : DoIncr(w)
    \/ \E w \in Workers : DoSet(w)
    \/ \E w \in Workers : DoDecr(w)
    \/ \E w \in Workers : BurstSleep(w)
    \/ \E d \in BurstTicks : BurstTick(d)

SpecBurst == InitBurst /\ [][NextBurst]_vars

----------------------------------------------------------------------------
(* test_restarting_memcache: every incr raises MemcacheConnectionError;    *)
(* requests of every method and path, under several policies               *)

Methods == {"GET", "HEAD", "POST", "PUT", "DELETE", "OPTIONS"}

AllRequests ==
    {[token |-> t, method |-> m, path |-> p, body |-> b, cache |-> c] :
        t \in Tokens \cup {None}, m \in Methods, p \in PathShapes,
        b \in BOOLEAN, c \in EnvCaches}

\* account_ratelimit and the limit of each action.
Policy(account, r) ==
    [DefaultConf EXCEPT !.account_ratelimit = account, !.image_list = r[1],
                        !.image_download = r[2], !.image_register = r[3],
                        !.image_upload = r[4], !.image_update = r[5]]

PolicyConfs == {Policy(0, <<0, 0, 0, 0, 0>>), Policy(10, <<5, 5, 5, 5, 5>>),
                Policy(13, <<0, 0, 0, 0, 0>>), Policy(0, <<1, 2, 3, 4, 5>>),
                Policy(2, <<0, 7, 0, 7, 0>>)}

InitDown ==
    /\ conf \in PolicyConfs
    /\ memcache_client = None
    /\ store = [k \in Keys |-> 0]
    /\ time_ticker \in StartTimes
    /\ begin = time_ticker
    /\ wk = [w \in Workers |-> IdleWorker]
    /\ nreq = 0

NextDown ==
    \/ \E req \in AllRequests : Receive(1, req)
    \/ ReadClock(1)
    \/ IncrRaises(1)

SpecDown == InitDown /\ [][NextDown]_vars

----------------------------------------------------------------------------
(* Requests that match the aggregate bucket and the bucket of an action,   *)
(* one at a time: an aggregate rate slower than the rate of the action, a  *)
(* rate of the action slower than the aggregate rate, both slow            *)

BothConfs == {SmallConf(50, 1, 100), SmallConf(50, 100, 1), SmallConf(100, 5, 2)}

InitBoth ==
    /\ conf \in BothConfs
    /\ memcache_client = None
    /\ store = [k \in Keys |-> 0]
    /\ time_ticker \in StartTimes
    /\ begin = time_ticker
    /\ wk = [w \in Workers |-> IdleWorker]
    /\ nreq = 0

SpecBoth == InitBoth /\ [][NextSeq]_vars

----------------------------------------------------------------------------
(* One request at a time, a request being cancelled while it sleeps *)

NextCancel ==
    \/ NextSeq
    \/ Cancel(1)

SpecCancel == Init /\ [][NextCancel]_vars

----------------------------------------------------------------------------
(* test_ratelimit_max_rate_multiple_acc turned onto one token: concurrent   *)
(* callers of one bucket, their store calls interleaved, over a store that  *)
(* never fails                                                              *)

RaceCalls == 5
RaceMaxTime == 120
RaceTicks == {60}

RaceCall(w) ==
    /\ nreq < RaceCalls
    /\ Call(w, [token |-> "a", method |-> "PUT", path |-> "other",
                body |-> FALSE, cache |-> "cache"])

RaceTick(d) == time_ticker + d <= begin + RaceMaxTime /\ Tick(d)

NextRace ==
    \/ \E w \in Workers : RaceCall(w)
    \/ \E w \in Workers : ReadClock(w)
    \/ \E w \in Workers : DoIncr(w)
    \/ \E w \in Workers : DoSet(w)
    \/ \E w \in Workers : DoDecr(w)
    \/ \E w \in Workers : Sleep(w)
    \/ \E d \in RaceTicks : RaceTick(d)

SpecRace == InitBurst /\ [][NextRace]_vars

----------------------------------------------------------------------------
(* Concurrent callers of one bucket that stays busy: the clock starts at 0  *)
(* and moves with the sleeps alone, so that no caller finds the bucket      *)
(* idle, and max_sleep_time_seconds is never reached                        *)

ConcCalls == 4
ConcRates == {2, 13}

ConcCall(w) ==
    /\ nreq < ConcCalls
    /\ Call(w, [token |-> "a", method |-> "PUT", path |-> "other",
                body |-> FALSE, cache |-> "cache"])

InitConc ==
    /\ conf \in {[DefaultConf EXCEPT !.account_ratelimit = R] : R \in ConcRates}
    /\ memcache_client = None
    /\ store = [k \in Keys |-> 0]
    /\ time_ticker = 0
    /\ begin = time_ticker
    /\ wk = [w \in Workers |-> IdleWorker]
    /\ nreq = 0

NextConc ==
    \/ \E w \in Workers : ConcCall(w)
    \/ \E w \in Workers : ReadClock(w)
    \/ \E w \in Workers : DoIncr(w)
    \/ \E w \in Workers : Sleep(w)

SpecConc == InitConc /\ [][NextConc]_vars

----------------------------------------------------------------------------
(* A bucket left alone: the first IdleBefore requests of a token are all    *)
(* decided at the time the run begins, with their sleeps still to come;     *)
(* then time passes, and one more request arrives                           *)

IdleBefore == 3
IdleMaxTime == 700
IdleTicks == {50, 600}

IdleConfs ==
    {[SmallConf(60 * Hundredths, 1, 0) EXCEPT !.rate_buffer_seconds = b] :
        b \in {1, 5}}

\* The requests before the idle period have made all their calls of the store.
Settled ==
    /\ nreq >= IdleBefore
    /\ \A w \in Workers :
          wk[w].seq <= IdleBefore => wk[w].pc \in {"idle", "sleep", "done"}

IdleCall ==
    /\ nreq < IdleBefore + 1
    /\ \A w \in Workers : wk[w].pc \in {"idle", "sleep", "done"}
    /\ \E w \in Workers :
          Call(w, [token |-> "a", method |-> "GET", path |-> "other",
                   body |-> FALSE, cache |-> "cache"])

IdleSleep(w) == Settled /\ Sleep(w)

IdleTick(d) ==
    /\ Settled
    /\ time_ticker + d <= begin + IdleMaxTime
    /\ time_ticker' = time_ticker + d
    /\ UNCHANGED <<conf, memcache_client, store, begin, wk, nreq>>

InitIdle ==
    /\ conf \in IdleConfs
    /\ memcache_client = None
    /\ store = [k \in Keys |-> 0]
    /\ time_ticker \in StartTimes
    /\ begin = time_ticker
    /\ wk = [w \in Workers |-> IdleWorker]
    /\ nreq = 0

NextIdle ==
    \/ IdleCall
    \/ \E w \in Workers : ReadClock(w)
    \/ \E w \in Workers : DoIncr(w)
    \/ \E w \in Workers : DoSet(w)
    \/ \E w \in Workers : IdleSleep(w)
    \/ \E d \in IdleTicks : IdleTick(d)

SpecIdle == InitIdle /\ [][NextIdle]_vars

----------------------------------------------------------------------------
(* test_ratelimit_set_incr: one caller, calls one after the other; the     *)
(* first incr may return a value far in the past, and once the caller may  *)
(* pause for IdleGap between two calls                                     *)

ResetCalls == 10
IdleGap == 10000

ResetCall ==
    /\ nreq < ResetCalls
    /\ Call(1, [token |-> "a", method |-> "PUT", path |-> "other",
                body |-> FALSE, cache |-> "cache"])

\* The caller has paused.
Paused == time_ticker - begin >= IdleGap

Pause ==
    /\ ~Paused
    /\ nreq >= 1
    /\ wk[1].pc = "done"
    /\ time_ticker' = time_ticker + IdleGap
    /\ UNCHANGED <<conf, memcache_client, store, begin, wk, nreq>>

NextReset ==
    \/ ResetCall
    \/ ReadClock(1)
    \/ DoIncr(1)
    \/ IncrReturnsNeg(1)
    \/ DoSet(1)
    \/ Sleep(1)
    \/ Pause

SpecReset == InitPace /\ [][NextReset]_vars

----------------------------------------------------------------------------
(* A caller that keeps to the rate: calls one after the other on one       *)
(* bucket, each at least time_per_request_m after the one before, with     *)
(* pauses of any length in between                                         *)

PoliteCalls == 5

PoliteConfs == {SmallConf(ms, R, 0) : ms \in {0, 100}, R \in {2, 13}}

\* The time between two calls: time_per_request_m, somewhat more, or longer
\* than rate_buffer_seconds.
PoliteWaits ==
    LET per == TimePerRequest(conf.account_ratelimit)
    IN {per, per + 7, 600}

PoliteCall ==
    /\ nreq < PoliteCalls
    /\ nreq = 0 \/ time_ticker - wk[1].now_m
                      >= TimePerRequest(conf.account_ratelimit)
    /\ Call(1, [token |-> "a", method |-> "GET", path |-> "other",
                body |-> FALSE, cache |-> "cache"])

\* The caller waits d after a call.
PoliteWait(d) ==
    /\ wk[1].pc = "done"
    /\ time_ticker = wk[1].now_m
    /\ time_ticker' = time_ticker + d
    /\ UNCHANGED <<conf, memcache_client, store, begin, wk, nreq>>

InitPolite ==
    /\ conf \in PoliteConfs
    /\ memcache_client = None
    /\ store = [k \in Keys |-> 0]
    /\ time_ticker \in StartTimes
    /\ begin = time_ticker
    /\ wk = [w \in Workers |-> IdleWorker]
    /\ nreq = 0

NextPolite ==
    \/ PoliteCall
    \/ ReadClock(1)
    \/ DoIncr(1)
    \/ DoSet(1)
    \/ DoDecr(1)
    \/ \E d \in PoliteWaits : PoliteWait(d)

SpecPolite == InitPolite /\ [][NextPolite]_vars

----------------------------------------------------------------------------
(* Callers with different tokens at the same time, one token being another  *)
(* token followed by "/" and the name of an action                          *)

TenantCalls == 3
TenantTokens == Tokens \cup SlashTokens

TenantCall(w, t) ==
    /\ nreq < TenantCalls
    /\ Call(w, [token |-> t, method |-> "GET", path |-> "images",
                body |-> FALSE, cache |-> "cache"])

InitTenants ==
    /\ conf = SmallConf(100, 2, 2)
    /\ memcache_client = None
    /\ store = [k \in Keys |-> 0]
    /\ time_ticker \in StartTimes
    /\ begin = time_ticker
    /\ wk = [w \in Workers |-> IdleWorker]
    /\ nreq = 0

NextTenants ==
    \/ \E w \in Workers, t \in TenantTokens : TenantCall(w, t)
    \/ \E w \in Workers : ReadClock(w)
    \/ \E w \in Workers : DoIncr(w)
    \/ \E w \in Workers : DoSet(w)
    \/ \E w \in Workers : DoDecr(w)
    \/ \E w \in Workers : Sleep(w)

SpecTenants == InitTenants /\ [][NextTenants]_vars

----------------------------------------------------------------------------
(* handle_ratelimit called with an action name of the caller's choice, as   *)
(* test_ratelimit_max_rate_multiple_acc calls it, one call after another    *)

PolicyCalls == 2
PolicyMethods == {"GET", "DELETE", "OPTIONS"}

\* account_ratelimit and the limit of each action, with clock_accuracy 100
\* and max_sleep_time_seconds 1.
SmallPolicy(account, rates) ==
    [Policy(account, rates) EXCEPT !.clock_accuracy = 100,
                                   !.max_sleep_time_seconds = 100,
                                   !.log_sleep_time_seconds = 1]

DirectConfs == {SmallPolicy(0, <<1, 2, 3, 4, 5>>), SmallPolicy(2, <<0, 0, 0, 0, 0>>),
                SmallPolicy(2, <<5, 0, 0, 0, 1>>), SmallPolicy(-1, <<0, 0, 0, 0, 0>>)}

\* handle_ratelimit up to its first bucket.
HandleRatelimit(w, method, auth_tok, action) ==
    LET r0 == [IdleWorker EXCEPT
                  !.seq = nreq + 1, !.token = auth_tok, !.method = method,
                  !.client = memcache_client, !.action = action]
        limits == get_ratelimitable_key_tuples(method, auth_tok, action)
        r1 == [r0 EXCEPT
                  !.limits = limits,
                  !.start = [j \in 1..Len(limits) |-> store[limits[j].key]],
                  !.logs = IF get_limit_for_action(action).raised
                           THEN {Log("error", "unknown action")} ELSE {}]
    IN /\ w \in Free
       /\ \A v \in Free : w <= v
       /\ wk' = [wk EXCEPT ![w] =
              IF NoClient(memcache_client)
              THEN Forwarded([r0 EXCEPT !.logs = {Log("error", "memcache_client is None")}])
              ELSE NextBucket(r1)]
       /\ nreq' = nreq + 1
       /\ UNCHANGED <<conf, memcache_client, store, time_ticker, begin>>

PolicyCall(method, action) ==
    /\ nreq < PolicyCalls
    /\ HandleRatelimit(1, method, "a", action)

InitPolicy ==
    /\ conf \in DirectConfs
    /\ memcache_client \in EnvCaches
    /\ store = [k \in Keys |-> 0]
    /\ time_ticker \in StartTimes
    /\ begin = time_ticker
    /\ wk = [w \in Workers |-> IdleWorker]
    /\ nreq = 0

NextPolicy ==
    \/ \E m \in PolicyMethods, a \in Actions \cup UnknownActions : PolicyCall(m, a)
    \/ ReadClock(1)
    \/ DoIncr(1)
    \/ DoSet(1)
    \/ DoDecr(1)
    \/ Sleep(1)

SpecPolicy == InitPolicy /\ [][NextPolicy]_vars

----------------------------------------------------------------------------
(* One caller of one bucket, one request after the other, many of them at   *)
(* one instant, with a few pauses; the requests let through are recorded    *)
(* with the time at which they were released                                *)

WindowCalls == 36
WindowMaxTime == 130
WindowRates == {1, 30}
WindowWaits == {60, 101}

WindowConfs ==
    {[SmallConf(100, R, 0) EXCEPT !.rate_buffer_seconds = 1] : R \in WindowRates}

\* The requests let through so far, the one that worker 1 has just ended
\* included: the time it was released at, and its delay.
Released(r) ==
    IF r.pc = "done" /\ r.resp = "app" /\ Len(r.checks) = 1
    THEN Append(r.released, [at |-> r.checks[1].now_m + r.checks[1].need,
                             need |-> r.checks[1].need])
    ELSE r.released

WindowCall ==
    /\ nreq < WindowCalls
    /\ CallAfter(1, [token |-> "a", method |-> "GET", path |-> "other",
                     body |-> FALSE, cache |-> "cache"], Released(wk[1]))

WindowWait(d) ==
    /\ wk[1].pc = "done"
    /\ time_ticker + d <= begin + WindowMaxTime
    /\ time_ticker' = time_ticker + d
    /\ UNCHANGED <<conf, memcache_client, store, begin, wk, nreq>>

\* The clock of the first request: 0, the latest time at which a fresh
\* bucket is not idle, and a time at which it is.
InitWindow ==
    /\ conf \in WindowConfs
    /\ memcache_client = None
    /\ store = [k \in Keys |-> 0]
    /\ time_ticker \in {0, conf.rate_buffer_seconds * conf.clock_accuracy
                              + TimePerRequest(conf.account_ratelimit), 1000}
    /\ begin = time_ticker
    /\ wk = [w \in Workers |-> IdleWorker]
    /\ nreq = 0

NextWindow ==
    \/ WindowCall
    \/ ReadClock(1)
    \/ DoIncr(1)
    \/ DoSet(1)
    \/ DoDecr(1)
    \/ Sleep(1)
    \/ \E d \in WindowWaits : WindowWait(d)

SpecWindow == InitWindow /\ [][NextWindow]_vars

----------------------------------------------------------------------------
(* Concurrent callers of one bucket of rate 1, some of which are rejected:  *)
(* the second request without delay at the time of the first is already at  *)
(* the ceiling; the clock starts at 0 (no bucket is idle) or late (the      *)
(* first requests find the bucket idle)                                     *)

UndoCalls == 3
UndoMaxTime == 25
UndoTicks == {25}

UndoCall(w) ==
    /\ nreq < UndoCalls
    /\ Call(w, [token |-> "a", method |-> "PUT", path |-> "other",
                body |-> FALSE, cache |-> "cache"])

UndoTick(d) ==
    /\ time_ticker + d <= begin + UndoMaxTime
    /\ time_ticker' = time_ticker + d
    /\ UNCHANGED <<conf, memcache_client, store, begin, wk, nreq>>

InitUndo ==
    /\ conf = SmallConf(100, 1, 0)
    /\ memcache_client = None
    /\ store = [k \in Keys |-> 0]
    /\ time_ticker \in StartTimes
    /\ begin = time_ticker
    /\ wk = [w \in Workers |-> IdleWorker]
    /\ nreq = 0

NextUndo ==
    \/ \E w \in Workers : UndoCall(w)
    \/ \E w \in Workers : ReadClock(w)
    \/ \E w \in Workers : DoIncr(w)
    \/ \E w \in Workers : DoSet(w)
    \/ \E w \in Workers : DoDecr(w)
    \/ \E w \in Workers : Sleep(w)
    \/ \E d \in UndoTicks : UndoTick(d)

SpecUndo == InitUndo /\ [][NextUndo]_vars

----------------------------------------------------------------------------
(* One request at a time, the store failing at times: a ceiling of 0, two   *)
(* buckets that both make the request sleep, and a bucket whose second      *)
(* request is exactly at the ceiling                                        *)

CeilConfs == {SmallConf(0, 2, 0), SmallConf(100, 5, 2), SmallConf(100, 1, 0)}

InitCeil ==
    /\ conf \in CeilConfs
    /\ memcache_client = None
    /\ store = [k \in Keys |-> 0]
    /\ time_ticker \in StartTimes
    /\ begin = time_ticker
    /\ wk = [w \in Workers |-> IdleWorker]
    /\ nreq = 0

SpecCeil == InitCeil /\ [][NextSeq]_vars

----------------------------------------------------------------------------
(* Two requests in flight together, each worker going on with the request   *)
(* it handles: the calls of the store return or raise, and a sleep ends     *)

Step(w) ==
    \/ ReadClock(w)
    \/ DoIncr(w)
    \/ IncrRaises(w)
    \/ DoSet(w)
    \/ SetRaises(w)
    \/ DoDecr(w)
    \/ DecrRaises(w)
    \/ Sleep(w)

LiveConfs == {SmallConf(50, 100, 1), SmallConf(100, 2, 0)}
LiveRequests == {req \in Requests : req.token = "a" /\ req.cache = "cache"}

\* A worker takes the one request it handles in the run.
LiveCall(w, req) == wk[w].pc = "idle" /\ Call(w, req)

InitLive ==
    /\ conf \in LiveConfs
    /\ memcache_client = None
    /\ store = [k \in Keys |-> 0]
    /\ time_ticker \in StartTimes
    /\ begin = time_ticker
    /\ wk = [w \in Workers |-> IdleWorker]
    /\ nreq = 0

NextLive ==
    \/ \E w \in Workers, req \in LiveRequests : LiveCall(w, req)
    \/ \E w \in Workers : Step(w)
    \/ \E d \in TickSteps : Tick(d)

SpecLive == InitLive /\ [][NextLive]_vars /\ \A w \in Workers : WF_vars(Step(w))

----------------------------------------------------------------------------
(* Requests one after the other whose environments carry no client, a       *)
(* client, or another client                                                *)

LatchCalls == 4
LatchCaches == {None, "cache", "other cache"}

LatchCall(cache) ==
    /\ nreq < LatchCalls
    /\ Call(1, [token |-> "a", method |-> "GET", path |-> "other",
                body |-> FALSE, cache |-> cache])

InitLatch ==
    /\ conf = SmallConf(100, 2, 0)
    /\ memcache_client = None
    /\ store = [k \in Keys |-> 0]
    /\ time_ticker \in StartTimes
    /\ begin = time_ticker
    /\ wk = [w \in Workers |-> IdleWorker]
    /\ nreq = 0

NextLatch ==
    \/ \E c \in LatchCaches : LatchCall(c)
    \/ ReadClock(1)
    \/ DoIncr(1)
    \/ DoSet(1)
    \/ Sleep(1)

SpecLatch == InitLatch /\ [][NextLatch]_vars

----------------------------------------------------------------------------
(* One caller of one bucket, for rates from 1 request per second to rates   *)
(* above twice clock_accuracy                                               *)

SpacingCalls == 3
SpacingRates == {1, 2, 3, 30, 100, 199, 200, 201, 1000}

SpacingCall ==
    /\ nreq < SpacingCalls
    /\ Call(1, [token |-> "a", method |-> "GET", path |-> "other",
                body |-> FALSE, cache |-> "cache"])

InitSpacing ==
    /\ conf \in {SmallConf(100, R, 0) : R \in SpacingRates}
    /\ memcache_client = None
    /\ store = [k \in Keys |-> 0]
    /\ time_ticker \in StartTimes
    /\ begin = time_ticker
    /\ wk = [w \in Workers |-> IdleWorker]
    /\ nreq = 0

NextSpacing ==
    \/ SpacingCall
    \/ ReadClock(1)
    \/ DoIncr(1)
    \/ DoSet(1)
    \/ DoDecr(1)
    \/ Sleep(1)

SpecSpacing == InitSpacing /\ [][NextSpacing]_vars

----------------------------------------------------------------------------
(* Properties *)

Abs(x) == IF x < 0 THEN -x ELSE x

\* The request of a worker has been admitted by every bucket checked so far.
Admitted(r) == r.pc = "sleep" \/ (r.pc = "done" /\ r.resp = "app")

Rejected(r) == r.pc = "done" /\ r.resp = "429"

\* C1: one caller, calls one after the other on a fresh bucket of rate R, the
\* clock moved by the sleeps alone: the first call sleeps 0, every later call
\* sleeps round(clock_accuracy / R), no call is rejected, and after N calls
\* the clock has moved by (N - 1) * round(clock_accuracy / R), which is
\* (N - 1) / R seconds up to half a clock unit per call.
C1_PacedDelays ==
    LET r == wk[1]
        R == conf.account_ratelimit
        per == RoundDiv(conf.clock_accuracy, R)
    IN /\ r.pc # "decr"
       /\ r.resp # "429"
       /\ r.pc = "done" =>
            /\ r.resp = "app"
            /\ r.slept = (IF r.seq = 1 THEN 0 ELSE per)
            /\ time_ticker - begin = (nreq - 1) * per
            /\ 2 * Abs(R * (time_ticker - begin) - (nreq - 1) * conf.clock_accuracy)
                   <= (nreq - 1) * R

C1_Witness ==
    /\ wk[1].pc = "done"
    /\ nreq = NumCalls
    /\ conf.account_ratelimit = 13
    /\ begin > 0
    /\ wk[1].slept > 0

\* C2: account_ratelimit 2, max_sleep_time_seconds 1, calls of one caller
\* that read the same time on a fresh bucket: the first is admitted with no
\* sleep, the second is admitted with a sleep of half a second, the third and
\* the fourth are rejected; a fifth call that reads a time at least half a
\* second later is admitted.
C2_BurstOfFour ==
    \A w \in Workers :
        LET r == wk[w]
            decided == r.pc \in {"sleep", "done"}
        IN /\ (decided /\ r.now_m = begin /\ r.seq = 1) =>
                  Admitted(r) /\ r.slept = 0
           /\ (decided /\ r.now_m = begin /\ r.seq = 2) =>
                  Admitted(r) /\ 2 * r.slept = conf.clock_accuracy
           /\ (decided /\ r.now_m = begin /\ r.seq \in {3, 4}) =>
                  Rejected(r) /\ r.slept = 0
           /\ (decided /\ r.seq = 5 /\ 2 * (r.now_m - begin) >= conf.clock_accuracy) =>
                  Admitted(r)

C2_Witness ==
    \E w \in Workers :
        /\ wk[w].seq = 5
        /\ wk[w].pc = "done"
        /\ wk[w].resp = "app"
        /\ wk[w].now_m = begin + 50
        /\ \E v \in Workers : wk[v].seq = 4 /\ Rejected(wk[v])

\* C3: the check of a bucket that ends in the rejection leaves the bucket at
\* the value it had just before the incr of that check.
C3_RejectionRestoresBucket ==
    \A w \in Workers : \A j \in 1..Len(wk[w].checks) :
        LET c == wk[w].checks[j]
        IN c.kind = "reject" => c.after = c.before

\* C4: after a rejected request that matches the aggregate bucket and the
\* bucket of an action, both buckets hold the values they had when the
\* request began.
C4_RejectionLeavesNoSideEffects ==
    LET r == wk[1]
    IN (Rejected(r) /\ Len(r.limits) = 2) =>
           \A j \in 1..2 : store[r.limits[j].key] = r.start[j]

\* C5: when every incr raises MemcacheConnectionError, every request is
\* passed to the application and none sleeps, whatever the rates.
C5_FailOpen ==
    LET r == wk[1]
    IN /\ r.pc \notin {"set", "decr", "sleep"}
       /\ r.resp # "429"
       /\ r.slept = 0
       /\ r.pc = "done" => r.resp = "app"
       /\ \A k \in Keys : store[k] = 0

C5_Witness ==
    LET r == wk[1]
    IN /\ r.pc = "done"
       /\ Len(r.checks) = 2
       /\ \A j \in 1..2 : r.checks[j].raised = "incr"
       /\ r.resp = "app"

\* C6: a MemcacheConnectionError of the incr, of the set or of the decr of a
\* bucket is never the outcome of the request: that bucket asks for no sleep,
\* the next bucket is checked, a request passed on has had every bucket
\* checked, and a request not passed on got the 429 of a rejecting bucket.
C6_StoreErrorsAbsorbed ==
    \A w \in Workers :
        LET r == wk[w]
        IN /\ r.resp \in {None, "app", "429"}
           /\ \A j \in 1..Len(r.checks) :
                 r.checks[j].kind = "error" =>
                     /\ r.checks[j].need = 0
                     /\ j < Len(r.limits) => r.i > j
           /\ (r.pc = "done" /\ r.resp = "app" /\ r.limits # <<>>) =>
                  Len(r.checks) = Len(r.limits)
           /\ r.resp = "429" =>
                  /\ r.checks # <<>>
                  /\ r.checks[Len(r.checks)].kind = "reject"
           /\ r.pc = "done" => r.resp # None

C6_Witness ==
    \E w \in Workers :
        LET r == wk[w]
        IN /\ r.pc = "done"
           /\ r.resp = "app"
           /\ Len(r.checks) = 2
           /\ r.checks[1].raised \in {"incr", "set"}
           /\ r.checks[2].raised = "decr"

\* A step of a request for which P holds leaves the store as it is.
LeavesStore(P(_)) ==
    \A w \in Workers : (wk'[w] # wk[w] /\ P(wk'[w])) => store' = store

WithoutClient(r) == r.pc # "idle" /\ r.client = None

\* C7: a request that finds no client is passed to the application at once,
\* without a sleep and without a call to the store, and a warning is logged.
C7_NoClientBypass ==
    /\ [](\A w \in Workers :
            WithoutClient(wk[w]) =>
                /\ wk[w].pc = "done"
                /\ wk[w].resp = "app"
                /\ wk[w].slept = 0
                /\ wk[w].ops = <<>>
                /\ \E l \in wk[w].logs : l.level = "warning")
    /\ [][LeavesStore(WithoutClient)]_vars

C7_Witness ==
    \E w \in Workers :
        /\ WithoutClient(wk[w])
        /\ wk[w].token # None
        /\ wk[w].method \in limitable_methods
        /\ conf.account_ratelimit > 0

WithoutToken(r) == r.pc # "idle" /\ r.token = None

\* C8: a request without x-auth-token is passed to the application at once,
\* without a sleep and without a call to the store, which it leaves as it is.
C8_NoTokenBypass ==
    /\ [](\A w \in Workers :
            WithoutToken(wk[w]) =>
                /\ wk[w].pc = "done"
                /\ wk[w].resp = "app"
                /\ wk[w].slept = 0
                /\ wk[w].ops = <<>>)
    /\ [][LeavesStore(WithoutToken)]_vars

C8_Witness ==
    \E w \in Workers :
        /\ WithoutToken(wk[w])
        /\ wk[w].client # None
        /\ wk[w].method \in limitable_methods
        /\ conf.account_ratelimit > 0
        /\ \E k \in Keys : store[k] # 0

\* The request has a token and a client, and no bucket applies to it: no
\* aggregate rate or a method that is not limited, and no action or an action
\* whose rate is 0.
NoBucketApplies(r) ==
    /\ r.pc # "idle"
    /\ r.token # None
    /\ r.client # None
    /\ conf.account_ratelimit = 0 \/ r.method \notin limitable_methods
    /\ r.action = None \/ (r.action \in Actions /\ conf[r.action] = 0)

\* C9: a request with a token to which no bucket applies is passed to the
\* application at once, without a sleep and without a call to the store.
C9_EmptyBucketList ==
    /\ [](\A w \in Workers :
            NoBucketApplies(wk[w]) =>
                /\ wk[w].pc = "done"
                /\ wk[w].resp = "app"
                /\ wk[w].slept = 0
                /\ wk[w].ops = <<>>)
    /\ [][LeavesStore(NoBucketApplies)]_vars

C9_Witness ==
    \E w \in Workers :
        /\ NoBucketApplies(wk[w])
        /\ wk[w].method \in limitable_methods
        /\ wk[w].action \in Actions

\* C10: for a request with a token whose action has a rate above 0, under an
\* aggregate rate above 0, the buckets are the aggregate bucket of the token
\* with the aggregate rate, then the bucket of the token and the action with
\* the rate of the action, and they are checked in that order.
C10_AggregateBeforeAction ==
    LET r == wk[1]
    IN (/\ r.pc # "idle"
        /\ r.token # None
        /\ r.client # None
        /\ r.action \in Actions
        /\ conf[r.action] > 0
        /\ conf.account_ratelimit > 0) =>
           /\ r.limits =
                <<[key |-> "ratelimit/" \o r.token,
                   max_rate |-> conf.account_ratelimit],
                  [key |-> "ratelimit/" \o r.token \o "/" \o r.action,
                   max_rate |-> conf[r.action]]>>
           /\ \A j \in 1..Len(r.checks) : r.checks[j].key = r.limits[j].key

C10_Witness ==
    LET r == wk[1]
    IN /\ r.pc = "done"
       /\ r.token = "b"
       /\ r.action = "image_update"
       /\ conf.account_ratelimit = 10
       /\ Len(r.checks) = 2

\* C11: when the aggregate bucket rejects a request that also has the bucket
\* of an action, the request ends there: the bucket of the action is not the
\* key of any incr, set or decr of the request and holds the value it had
\* when the request began.
C11_AggregateRejectionStops ==
    LET r == wk[1]
    IN (/\ Len(r.limits) = 2
        /\ r.checks # <<>>
        /\ r.checks[1].kind = "reject") =>
           /\ Rejected(r)
           /\ Len(r.checks) = 1
           /\ \A j \in 1..Len(r.ops) : r.ops[j].key # r.limits[2].key
           /\ store[r.limits[2].key] = r.start[2]

C11_Witness ==
    LET r == wk[1]
    IN /\ Len(r.limits) = 2
       /\ r.checks # <<>>
       /\ r.checks[1].kind = "reject"
       /\ r.checks[1].need > 0
       /\ r.start[2] > 0

\* C12: a request that is rejected has not slept for any of its buckets.
C12_RejectedObservesNoDelay ==
    \A w \in Workers : Rejected(wk[w]) => wk[w].slept = 0

\* C13: a request about to incr a bucket has not slept yet: every incr of a
\* request comes before its first sleep.
C13_ReservationsBeforeWait ==
    \A w \in Workers : wk[w].pc = "incr" => wk[w].slept = 0

\* C14: a request with both buckets that is passed to the application has
\* slept the sum of the sleeps computed for its two buckets, and the clock
\* has moved by at least that sum since the check of the first bucket.
C14_DelaysAddUp ==
    LET r == wk[1]
    IN (r.pc = "done" /\ r.resp = "app" /\ Len(r.limits) = 2) =>
           /\ Len(r.checks) = 2
           /\ r.slept = r.checks[1].need + r.checks[2].need
           /\ time_ticker >= r.checks[1].now_m + r.checks[1].need + r.checks[2].need
           /\ r.checks[2].now_m >= r.checks[1].now_m + r.checks[1].need

C14_Witness ==
    LET r == wk[1]
    IN /\ r.pc = "done"
       /\ r.resp = "app"
       /\ Len(r.checks) = 2
       /\ r.checks[1].kind = "admit" /\ r.checks[1].need > 0
       /\ r.checks[2].kind = "admit" /\ r.checks[2].need > 0

\* C15: a request sleeps for a bucket only once the incr of that bucket is
\* made, and a request cancelled during that sleep makes no decr and no set
\* afterwards: the bucket keeps the value the incr of the request gave it.
C15_CancelKeepsReservation ==
    LET r == wk[1]
        c == r.checks[Len(r.checks)]
        last == r.ops[Len(r.ops)]
    IN (r.pc = "sleep" \/ r.resp = "cancelled") =>
           /\ r.ops # <<>>
           /\ last.op = "incr"
           /\ last.key = Bucket(r).key
           /\ c.key = Bucket(r).key
           /\ c.kind = "admit"
           /\ c.running = c.before + r.time_per_request_m
           /\ store[c.key] = c.running
           /\ r.resp = "cancelled" => r.pc = "done"

C15_Witness ==
    LET r == wk[1]
    IN /\ r.resp = "cancelled"
       /\ r.seq = 2
       /\ r.checks[Len(r.checks)].before > 0

\* C16: the running_time_m values that the incr returned to two requests
\* admitted on the same bucket are at least time_per_request_m apart, so
\* that their slots [running_time_m - time_per_request_m, running_time_m)
\* do not overlap, whatever the interleaving of the workers.
C16_DistinctSlots ==
    \A w, v \in Workers :
        \A j \in 1..Len(wk[w].checks), l \in 1..Len(wk[v].checks) :
            LET c == wk[w].checks[j]
                d == wk[v].checks[l]
            IN (w # v /\ c.key = d.key /\ c.kind = "admit" /\ d.kind = "admit") =>
                   Abs(c.running - d.running) >= TimePerRequest(c.max_rate)

\* C17: concurrent requests on one bucket, none of which finds it idle or
\* is rejected: whatever the interleaving, the bucket holds
\* time_per_request_m times the number of incr made so far (k times
\* time_per_request_m once k requests are through), every incr returned the
\* value before it plus time_per_request_m, and two requests in flight never
\* got the same value.
C17_NoLostReservation ==
    LET key == AggregateKey("a")
        per == TimePerRequest(conf.account_ratelimit)
        pending == {w \in Workers : wk[w].pc \in {"time", "incr"}}
    IN /\ \A w \in Workers : wk[w].pc \notin {"set", "decr"} /\ wk[w].resp # "429"
       /\ store[key] = per * (nreq - Cardinality(pending))
       /\ \A w \in Workers : \A j \in 1..Len(wk[w].checks) :
             LET c == wk[w].checks[j]
             IN /\ c.kind = "admit" /\ ~c.reset
                /\ c.running = c.before + per
                /\ \E i \in 1..nreq : c.running = i * per
       /\ \A w, v \in Workers :
             (w # v /\ wk[w].checks # <<>> /\ wk[v].checks # <<>>) =>
                 wk[w].checks[1].running # wk[v].checks[1].running

C17_Witness ==
    /\ nreq = ConcCalls
    /\ \A w \in Workers : wk[w].pc = "sleep"
    /\ wk[1].checks[1].before > 0
    /\ wk[1].seq < wk[2].seq
    /\ wk[1].checks[1].running > wk[2].checks[1].running
    /\ store[AggregateKey("a")] = ConcCalls * TimePerRequest(conf.account_ratelimit)

\* C18: the bucket was last touched when the run began; a request that
\* reads the clock more than rate_buffer_seconds later takes the reset of an
\* idle bucket and is asked for no sleep.
C18_IdleBucketResets ==
    \A w \in Workers :
        LET r == wk[w]
            c == r.checks[1]
        IN (/\ r.seq = IdleBefore + 1
            /\ r.checks # <<>>
            /\ c.now_m - begin > conf.rate_buffer_seconds * conf.clock_accuracy) =>
               /\ c.reset
               /\ c.kind = "admit"
               /\ c.need = 0

C20_RejectionOnlyAtCeiling ==
    \A w \in Workers :
        LET r == wk[w]
            max_sleep_m == conf.max_sleep_time_seconds * conf.clock_accuracy
        IN /\ \A j \in 1..Len(r.checks) :
                 LET c == r.checks[j]
                 IN /\ c.kind \in {"admit", "reject", "error"}
                    /\ c.kind = "error" <=> c.raised # None
                    /\ c.kind # "error" =>
                          (c.kind = "reject" <=>
                              max_sleep_m - Hundredths * c.need <= conf.clock_accuracy)
                    /\ c.kind = "admit" =>
                          /\ c.need >= 0
                          /\ Hundredths * c.need < max_sleep_m
           /\ r.pc = "sleep" => Hundredths * r.need_to_sleep_m < max_sleep_m
           /\ r.resp = "429" =>
                 /\ r.checks # <<>>
                 /\ r.checks[Len(r.checks)].kind = "reject"
                 /\ \A j \in 1..(Len(r.checks) - 1) : r.checks[j].kind # "reject"

C20_Witness ==
    \E w \in Workers :
        LET r == wk[w]
        IN /\ Len(r.checks) = 2
           /\ r.checks[1].kind = "admit" /\ r.checks[1].need > 0
           /\ r.checks[2].kind = "reject" /\ r.checks[2].need > 0
           /\ r.resp = "429"

\* A request of the caller is never asked to sleep and never rejected.
NeverDelayed ==
    LET r == wk[1]
    IN /\ r.pc \notin {"sleep", "decr"}
       /\ r.resp # "429"
       /\ \A j \in 1..Len(r.checks) :
             r.checks[j].kind = "admit" /\ r.checks[j].need = 0
       /\ r.pc = "done" => r.resp = "app" /\ r.slept = 0

\* C21 as stated: a caller whose calls on one bucket are at least
\* time_per_request_m apart is never asked to sleep and never rejected, in
\* every configuration.
C21_PoliteNeverDelayed == NeverDelayed

\* C21, amended: the same where max_sleep_time_seconds is above 0.01; at or
\* below it every check is a rejection, whatever the traffic.
C21_PoliteNeverDelayedBelowCeiling ==
    conf.max_sleep_time_seconds * conf.clock_accuracy > conf.clock_accuracy
        => NeverDelayed

C21_Witness ==
    LET r == wk[1]
    IN /\ conf.max_sleep_time_seconds > 0
       /\ nreq = PoliteCalls
       /\ r.pc = "done"
       /\ r.checks[1].reset
       /\ r.checks[1].before > begin
       /\ time_ticker - begin >= 600

\* The buckets of a token: its aggregate bucket and its bucket of each action.
KeysOf(t) == {AggregateKey(t)} \cup {ActionKey(t, a) : a \in Actions}

\* C22: no incr, set or decr of a request is made on a bucket of another
\* token.
C22_CallersIndependent ==
    \A w \in Workers : \A j \in 1..Len(wk[w].ops) :
        \A u \in TenantTokens \ {wk[w].token} : wk[w].ops[j].key \notin KeysOf(u)

\* C27: two requests whose bucket lists share a key have the same token, and
\* the key is the aggregate bucket of both or the bucket of the same action
\* of both.
C27_KeysInjective ==
    \A w, v \in Workers :
        \A j \in 1..Len(wk[w].limits), l \in 1..Len(wk[v].limits) :
            wk[w].limits[j].key = wk[v].limits[l].key =>
                /\ wk[w].token = wk[v].token
                /\ j = l

\* C23: a request whose action is none of the five known ones has at most
\* the aggregate bucket in its list, touches no other key, has the policy
\* error logged, and without aggregate bucket it proceeds at once.
C23_UnknownActionAggregateOnly ==
    \A w \in Workers :
        LET r == wk[w]
        IN (r.pc # "idle" /\ r.client # None /\ r.action \notin Actions) =>
              /\ Len(r.limits) <= 1
              /\ \A j \in 1..Len(r.limits) :
                     r.limits[j] = [key |-> AggregateKey(r.token),
                                    max_rate |-> conf.account_ratelimit]
              /\ \A j \in 1..Len(r.ops) : r.ops[j].key = AggregateKey(r.token)
              /\ Log("error", "unknown action") \in r.logs
              /\ (conf.account_ratelimit = 0 \/ r.method \notin limitable_methods) =>
                     (r.pc = "done" /\ r.resp = "app" /\ r.ops = <<>>)

C23_Witness ==
    /\ wk[1].seq = 2 /\ wk[1].action = "foobar" /\ wk[1].pc = "done"
    /\ wk[1].resp = "app" /\ wk[1].slept > 0
    /\ conf.image_list > 0

\* The limit configured for one of the five actions.
Configured(action) ==
    CASE action = "image_list" -> conf.image_list
      [] action = "image_download" -> conf.image_download
      [] action = "image_register" -> conf.image_register
      [] action = "image_upload" -> conf.image_upload
      [] action = "image_update" -> conf.image_update

\* C24: the resolver gives each of the five actions its configured limit and
\* raises for every other name; the bucket list of a request has the bucket
\* of its action with that limit exactly when the limit is above 0.
C24_PolicyResolution ==
    \A w \in Workers :
        LET r == wk[w]
            res == get_limit_for_action(r.action)
            mine == {j \in 1..Len(r.limits) :
                        r.limits[j].key = ActionKey(r.token, r.action)}
        IN (r.pc # "idle" /\ r.client # None) =>
              IF r.action \in Actions
              THEN /\ res = [raised |-> FALSE, limit |-> Configured(r.action)]
                   /\ Log("error", "unknown action") \notin r.logs
                   /\ IF Configured(r.action) > 0
                      THEN \E j \in mine : r.limits[j].max_rate = Configured(r.action)
                      ELSE mine = {}
              ELSE /\ res.raised
                   /\ Log("error", "unknown action") \in r.logs
                   /\ mine = {}

C24_Witness ==
    /\ wk[1].seq = 2 /\ wk[1].action = "image_update" /\ wk[1].pc = "done"
    /\ conf.image_update = 5 /\ conf.image_upload = 4
    /\ Len(wk[1].checks) = 1
    /\ wk[1].checks[1].key = ActionKey("a", "image_update")
    /\ wk[1].checks[1].max_rate = 5

\* C25: the bucket list of a request has the aggregate bucket exactly when
\* account_ratelimit is above 0 and the method is a limitable one.
C25_AggregateIffPositive ==
    \A w \in Workers :
        LET r == wk[w]
        IN (r.pc # "idle" /\ r.client # None) =>
              ((\E j \in 1..Len(r.limits) : r.limits[j].key = AggregateKey(r.token))
                  <=> (conf.account_ratelimit > 0 /\ r.method \in limitable_methods))

\* The action of a method, a path shape and the presence of a body or a
\* location header, as a table.
Classified(method, path, body) ==
    CASE method = "GET" /\ path \in {"images", "detail"} -> "image_list"
      [] method = "HEAD" /\ path \in {"id", "detail"} -> "image_list"
      [] method = "GET" /\ path = "id" -> "image_download"
      [] method = "POST" /\ path = "images" /\ ~body -> "image_register"
      [] method = "POST" /\ path = "images" /\ body -> "image_upload"
      [] method = "PUT" /\ path \in {"id", "detail"} /\ body -> "image_upload"
      [] method = "PUT" /\ path \in {"id", "detail"} /\ ~body -> "image_update"
      [] OTHER -> None

\* C28: the action of a request that reaches the limiter is the one the
\* table gives for its method, its path shape and its body or location
\* header, and nothing else of the request or of the state enters it.
C28_ClassificationTable ==
    \A w \in Workers :
        LET r == wk[w]
        IN (r.pc # "idle" /\ r.client # None /\ r.token # None) =>
              r.action = Classified(r.method, r.path, r.body)

C28_Witness ==
    /\ wk[1].pc # "idle" /\ wk[1].client # None /\ wk[1].token # None
    /\ wk[1].method = "PUT" /\ wk[1].path = "id" /\ wk[1].body
    /\ wk[1].action = "image_upload"
    /\ Len(wk[1].limits) = 2

\* C26: a request that has ended was forwarded once and got no rejection,
\* or got the 429 and was not forwarded; before it ends it is not forwarded.
C26_ExactlyOneOutcome ==
    \A w \in Workers :
        LET r == wk[w]
            rejects == {j \in 1..Len(r.checks) : r.checks[j].kind = "reject"}
        IN /\ r.pc = "done" => r.resp \in {"app", "429"}
           /\ r.pc \notin {"idle", "done"} => (r.resp = None /\ r.forwards = 0)
           /\ r.resp = "app" => (r.forwards = 1 /\ rejects = {})
           /\ r.resp = "429" =>
                 (r.forwards = 0 /\ rejects = {Len(r.checks)} /\ r.pc = "done")

C26_Witness ==
    \E w, v \in Workers :
        /\ wk[w].pc = "done" /\ wk[w].resp = "429" /\ wk[w].forwards = 0
        /\ wk[v].pc = "done" /\ wk[v].resp = "app" /\ wk[v].forwards = 1
        /\ wk[v].checks # <<>>

\* Of the requests let through, those from the i-th to the j-th are released
\* in a window of length T = at[j] - at[i]; their number is at most
\* (T + rate_buffer_seconds * clock_accuracy) / time_per_request_m + 2.
WindowBound ==
    LET rel == Released(wk[1])
        per == TimePerRequest(conf.account_ratelimit)
        buf == conf.rate_buffer_seconds * conf.clock_accuracy
    IN \A i \in 1..Len(rel) : \A j \in i..Len(rel) :
           (j - i + 1 - 2) * per <= (rel[j].at - rel[i].at) + buf

\* The longest run of requests let through without delay at one instant.
InstantRuns ==
    LET rel == Released(wk[1])
    IN {j - i + 1 : j \in 1..Len(rel), i \in 1..Len(rel)} \cap
       {n \in 1..Len(rel) : \E i \in 1..(Len(rel) - n + 1) :
            \A k \in i..(i + n - 1) : rel[k].need = 0 /\ rel[k].at = rel[i].at}

\* C29 as stated: the bound of every window, and at most
\* rate_buffer_seconds * R + 2 requests without delay at one instant.
C29_RateBound ==
    /\ WindowBound
    /\ \A n \in InstantRuns : n <= conf.rate_buffer_seconds * conf.account_ratelimit + 2

\* C29, amended: the bound of every window, and at one instant at most
\* rate_buffer_seconds * clock_accuracy / time_per_request_m, rounded down,
\* plus 2 requests without delay.
C29_RateBoundPerSlot ==
    /\ WindowBound
    /\ \A n \in InstantRuns :
           n <= (conf.rate_buffer_seconds * conf.clock_accuracy)
                    \div TimePerRequest(conf.account_ratelimit) + 2

C29_Witness ==
    /\ conf.account_ratelimit = 30
    /\ 35 \in InstantRuns
    /\ wk[1].pc = "done" /\ wk[1].resp = "app" /\ wk[1].slept > 0

\* C30: two requests that were in flight together, both let through, at
\* least one after a reset of the idle bucket: once both have ended the
\* bucket holds at least the time of the earliest reset plus twice
\* time_per_request_m.
C30_ResetsKeepReservations ==
    LET key == AggregateKey("a")
        per == TimePerRequest(conf.account_ratelimit)
        resets == {wk[w].checks[1].now_m : w \in {v \in Workers : wk[v].checks[1].reset}}
    IN (/\ nreq = 2
        /\ \A w \in Workers : /\ wk[w].pc = "done" /\ wk[w].resp = "app"
                               /\ Len(wk[w].checks) = 1
        /\ wk[1].seq # wk[2].seq
        /\ resets # {}) =>
           \A t \in resets : (\A u \in resets : t <= u) => store[key] >= t + 2 * per

\* No request is in flight.
Quiescent == \A w \in Workers : wk[w].pc \in {"idle", "done"}

\* C31: once every request of the run has ended, the bucket holds what the
\* requests let through have left in it: the first of them reserved the slot
\* that starts at the beginning of the run (by its incr, or by the set of
\* its reset), and the rejected ones have taken nothing away from it.
C31_RejectedLeaveNoTrace ==
    (Quiescent /\ nreq >= 1) =>
        store[AggregateKey("a")] >= begin + TimePerRequest(conf.account_ratelimit)

\* A request that is about to be rejected while the incr of another
\* request, also about to be rejected, is in the value it got.
Phantom(w, v) ==
    /\ w # v
    /\ wk[w].pc = "decr" /\ wk[v].pc = "decr"
    /\ ~wk[w].reset /\ ~wk[v].reset
    /\ wk[v].running_time_m < wk[w].running_time_m

\* C32, its particular case: a request that is rejected with the incr of a
\* request that ends up rejected in the value it observed would have been
\* rejected without that incr as well.
C32_NoPhantomRejection ==
    \A w, v \in Workers :
        Phantom(w, v) =>
            MaxSleepTimeHit(NeedToSleep(wk[w].now_m,
                                        wk[w].running_time_m - wk[v].time_per_request_m,
                                        wk[w].time_per_request_m))

\* C33: requests one after the other on one bucket, from a fresh bucket:
\* the value V a check leaves in the bucket is at least the time now_m of
\* the check less rate_buffer_seconds * clock_accuracy when the check
\* admitted, and below now_m + time_per_request_m + max_sleep_time_seconds *
\* clock_accuracy in every case; the bucket holds V until the next request.
C33_BoundedDebt ==
    LET r == wk[1]
        per == TimePerRequest(conf.account_ratelimit)
        buf == conf.rate_buffer_seconds * conf.clock_accuracy
        max_sleep_m == conf.max_sleep_time_seconds * conf.clock_accuracy
    IN \A j \in 1..Len(r.checks) :
           LET c == r.checks[j]
           IN /\ c.kind \in {"admit", "reject"}
              /\ c.kind = "admit" => c.now_m - buf <= c.after
              /\ Hundredths * c.after < Hundredths * (c.now_m + per) + max_sleep_m
              /\ r.pc \in {"sleep", "done"} => store[c.key] = c.after

C33_Witness ==
    /\ wk[1].pc = "done" /\ wk[1].resp = "429" /\ wk[1].seq >= 3
    /\ Len(wk[1].released) >= 2
    /\ \E i \in 1..Len(wk[1].released) : wk[1].released[i].need > 0
    /\ begin = 1000
    /\ store[AggregateKey("a")] > time_ticker

\* The request went through handle_ratelimit and was let through.
LetThrough(r) ==
    r.pc = "done" /\ r.resp = "app" /\ r.client # None /\ r.token # None

\* C34 as stated: the sleeps of a request that was let through after the
\* check of at least one bucket add up to less than the number of buckets
\* checked times max_sleep_time_seconds.
C34_TotalWaitBelowCeilings ==
    \A w \in Workers :
        LET r == wk[w]
        IN (LetThrough(r) /\ Len(r.checks) >= 1) =>
              Hundredths * r.slept <
                  Len(r.checks) * conf.max_sleep_time_seconds * conf.clock_accuracy

\* C34, amended: so it is when max_sleep_time_seconds is above 0; with
\* max_sleep_time_seconds 0 a request is let through only when the store
\* failed at every bucket, and it has not slept; a request without bucket
\* has not slept either.
C34_TotalWaitBelowPositiveCeilings ==
    \A w \in Workers :
        LET r == wk[w]
        IN LetThrough(r) =>
              /\ (Len(r.checks) >= 1 /\ conf.max_sleep_time_seconds > 0) =>
                    Hundredths * r.slept <
                        Len(r.checks) * conf.max_sleep_time_seconds * conf.clock_accuracy
              /\ conf.max_sleep_time_seconds = 0 =>
                    /\ r.slept = 0
                    /\ \A j \in 1..Len(r.checks) : r.checks[j].kind = "error"
              /\ r.checks = <<>> => r.slept = 0
              /\ Len(r.checks) = Len(r.limits)

C34_Witness ==
    /\ LetThrough(wk[1]) /\ Len(wk[1].checks) = 2
    /\ wk[1].checks[1].need > 0 /\ wk[1].checks[2].need > 0
    /\ wk[1].slept = wk[1].checks[1].need + wk[1].checks[2].need

\* The number of calls of op that the request has made on key.
Calls(r, op, key) ==
    Cardinality({j \in 1..Len(r.ops) : r.ops[j].op = op /\ r.ops[j].key = key})

RECURSIVE Waited(_)
\* The sleeps that the checks of a request have asked for.
Waited(cs) ==
    IF cs = <<>> THEN 0
    ELSE Waited(SubSeq(cs, 1, Len(cs) - 1))
         + (IF cs[Len(cs)].kind = "reject" THEN 0 ELSE cs[Len(cs)].need)

\* A request calls incr, set and decr at most once for each of its buckets
\* and for no other key, and sleeps at most once for each bucket, for the
\* time the check of the bucket asked for.
AtMostOnce ==
    \A w \in Workers :
        LET r == wk[w]
        IN /\ \A k \in Keys : \A op \in {"incr", "set", "decr"} :
                 Calls(r, op, k) <=
                     (IF \E j \in 1..Len(r.limits) : r.limits[j].key = k THEN 1 ELSE 0)
           /\ Len(r.checks) <= Len(r.limits)
           /\ r.slept = Waited(r.checks)
           /\ r.pc = "sleep" =>
                 (r.wake - time_ticker <= r.need_to_sleep_m /\ r.need_to_sleep_m > 0)

\* C35: under fair scheduling of its worker every request that is being
\* handled ends, forwarded or answered 429, whatever the other worker does;
\* on the way it calls the store and sleeps at most once per bucket.
C35_EveryRequestEnds ==
    /\ []AtMostOnce
    /\ \A w \in Workers :
          (wk[w].pc \notin {"idle", "done"}) ~>
              (wk[w].pc = "done" /\ wk[w].resp \in {"app", "429"})

C35_Witness ==
    \E w, v \in Workers :
        /\ wk[w].pc = "done" /\ wk[w].resp = "429"
        /\ Calls(wk[w], "decr", wk[w].limits[Len(wk[w].checks)].key) = 1
        /\ wk[v].pc = "done" /\ wk[v].resp = "app" /\ wk[v].slept > 0
        /\ wk[v].seq > wk[w].seq

\* A request is handled with the client that is held; without one it is
\* forwarded with the warning and checks no bucket.
ClientInUse ==
    \A w \in Workers :
        LET r == wk[w]
        IN r.pc # "idle" =>
              /\ r.client = memcache_client
              /\ r.client = None =>
                    /\ r.pc = "done" /\ r.resp = "app" /\ r.ops = <<>>
                    /\ Log("warning", "no memcached") \in r.logs
              /\ r.client # None =>
                    (r.ops # <<>> \/ r.pc \in {"time", "incr"})

\* The client that is held changes only from none to the client that the
\* environment of the arriving request carries; and a request that carries
\* a client while none is held makes it the client held.
ClientLatched ==
    /\ memcache_client # None => memcache_client' = memcache_client
    /\ (memcache_client = None /\ nreq' = nreq + 1) =>
           \E w \in Workers :
               /\ wk'[w].seq = nreq'
               /\ wk'[w].client = memcache_client'
               /\ memcache_client' \in LatchCaches

\* C36: the client is acquired from the environment of a request as long as
\* none is held, and once held it is used for every later request and is
\* neither replaced nor cleared.
C36_ClientIsLatched == []ClientInUse /\ [][ClientLatched]_vars

C36_Witness ==
    /\ memcache_client = "other cache"
    /\ wk[1].seq = 3 /\ wk[1].client = "other cache" /\ wk[1].ops # <<>>
    /\ wk[1].pc = "done" /\ wk[1].slept > 0

\* The request has computed time_per_request_m.
Computed(r) == r.pc \in {"incr", "set", "decr", "sleep", "done"} /\ r.limits # <<>>

\* C37 as stated: time_per_request_m of a positive rate is at least 1, and
\* a request that is let through without reset has moved the bucket forward.
C37_SpacingAtLeastOne ==
    LET r == wk[1]
    IN Computed(r) =>
          /\ r.time_per_request_m >= 1
          /\ \A j \in 1..Len(r.checks) :
                 (r.checks[j].kind = "admit" /\ ~r.checks[j].reset) =>
                     r.checks[j].running > r.checks[j].before

\* C37, amended: so it is for the rates up to twice clock_accuracy; for a
\* rate above, time_per_request_m is 0, the incr leaves the bucket where it
\* is and every request is let through without delay.
C37_SpacingAtLeastOneUpToTwiceAccuracy ==
    LET r == wk[1]
        R == conf.account_ratelimit
    IN Computed(r) =>
          /\ r.time_per_request_m >= 0
          /\ r.time_per_request_m >= 1 <=> R <= 2 * conf.clock_accuracy
          /\ \A j \in 1..Len(r.checks) :
                 LET c == r.checks[j]
                 IN IF R <= 2 * conf.clock_accuracy
                    THEN (c.kind = "admit" /\ ~c.reset) => c.running > c.before
                    ELSE c.kind = "admit" /\ c.need = 0 /\ c.running = c.before

C37_Witness ==
    /\ conf.account_ratelimit = 200 /\ wk[1].seq = 3 /\ wk[1].pc = "done"
    /\ wk[1].time_per_request_m = 1
    /\ wk[1].checks[1].need = 1 /\ wk[1].slept = 1

\* The time to sleep is above log_sleep_time_seconds.
AboveLogThreshold(need) ==
    Hundredths * need > conf.log_sleep_time_seconds * conf.clock_accuracy

====
